---- MODULE Spec2Model ----
(***************************************************************************)
(* ORACLE Engine (src/src/oracle_engine.py): the bounded-concurrency       *)
(* request pipeline.  GeminiClient.generate (retry loop), the reply parser *)
(* inside OracleEngine.run_simulation, run_category / run_all (semaphore,  *)
(* pacing, result collections) and main().                                 *)
(*                                                                         *)
(* Texts are sequences of tokens.  "{" "}" "," are the JSON punctuation,   *)
(* "n" is one character that is not JSON, and every other token is one     *)
(* whole object member  "key": value  (see PairKey / PairVal).             *)
(* Numbers are kept in tenths (0.9 is 9, 85 is 850).                       *)
(***************************************************************************)
EXTENDS Integers, Sequences, FiniteSets, TLC

\* ------------------------------------------------------------------ bounds
MaxLen == 4
MaxHyp == 2
MaxCap == 2
MaxRecords == 2
MaxParts == 2

\* ------------------------------------------------------- program constants
RETRY_ATTEMPTS == 3
RateLimitStep == 5
ErrorSleep == 2
DefaultConfidence == 5
DefaultPriority == 50

\* --------------------------------------------------------- JSON values
JNum(n) == [t |-> "num", n |-> n, s |-> "", l |-> <<>>]
JStr(s) == [t |-> "str", n |-> 0, s |-> s, l |-> <<>>]
JList(l) == [t |-> "list", n |-> 0, s |-> "", l |-> l]
JNull == [t |-> "null", n |-> 0, s |-> "", l |-> <<>>]

\* The members the model's JSON texts are built from.
PairTokens ==
    {"oP", "c9", "cS", "pN", "p85", "iL", "sT", "eF", "eN", "eJ", "eI", "oNeu"}

PairKey(tok) ==
    CASE tok \in {"oP", "oNeu"} -> "outcome"
      [] tok \in {"c9", "cS"} -> "confidence"
      [] tok \in {"pN", "p85"} -> "priority_score"
      [] tok = "iL" -> "insights"
      [] tok = "sT" -> "summary"
      [] OTHER -> "error"

PairVal(tok) ==
    CASE tok = "oP" -> JStr("positive")
      [] tok = "oNeu" -> JStr("neutral")
      [] tok = "c9" -> JNum(9)
      [] tok = "cS" -> JStr("high")
      [] tok = "pN" -> JNull
      [] tok = "p85" -> JNum(850)
      [] tok = "iL" -> JList(<<"a">>)
      [] tok = "sT" -> JStr("ok")
      [] tok = "eF" -> JStr("Failed after retries")
      [] tok = "eN" -> JStr("No text in response")
      [] tok = "eJ" -> JStr("No JSON found")
      [] OTHER -> JStr("Invalid JSON")

\* The two sentinels of GeminiClient.generate.
FailedAfterRetries == <<"{", "eF", "}">>
NoTextInResponse == <<"{", "eN", "}">>

\* ------------------------------------------------------------ the parser
\* The first occurrence where the last is meant.
FindFirst(s, c) ==
    IF \E i \in 1..Len(s) : s[i] = c
    THEN (CHOOSE i \in 1..Len(s) : s[i] = c /\ \A j \in 1..(i - 1) : s[j] # c) - 1
    ELSE -1

\* str.rfind: the 0-based index of the last occurrence, -1 when there is none.
RFind(s, c) ==
    IF \E i \in 1..Len(s) : s[i] = c
    THEN (CHOOSE i \in 1..Len(s) : s[i] = c /\ \A j \in (i + 1)..Len(s) : s[j] # c) - 1
    ELSE -1

\* The last occurrence where the first is meant.
FindLast(s, c) == RFind(s, c)

\* str.find: the 0-based index of the first occurrence, -1 when there is none.
Find(s, c) ==
    IF \E i \in 1..Len(s) : s[i] = c
    THEN (CHOOSE i \in 1..Len(s) : s[i] = c /\ \A j \in 1..(i - 1) : s[j] # c) - 1
    ELSE -1

\* s[a:b] of Python, for 0 <= a <= b <= len(s).
Slice(s, a, b) == SubSeq(s, a + 1, b)

\* The text between the braces is a member list: member ("," member)*.
IsMembers(m) ==
    \/ m = <<>>
    \/ /\ Len(m) % 2 = 1
       /\ \A i \in 1..Len(m) :
            IF i % 2 = 1 THEN m[i] \in PairTokens ELSE m[i] = ","

\* json.loads succeeds on s (s is one JSON object and nothing else).
Decodes(s) ==
    /\ Len(s) >= 2
    /\ s[1] = "{"
    /\ s[Len(s)] = "}"
    /\ IsMembers(SubSeq(s, 2, Len(s) - 1))

\* The dict json.loads returns, kept as its members in text order.
DecodedMembers(s) ==
    LET m == SubSeq(s, 2, Len(s) - 1)
    IN  [i \in 1..((Len(m) + 1) \div 2) |-> m[2 * i - 1]]

\* dict.get(key, default); a repeated key keeps its last value.
Get(data, key, default) ==
    IF \E i \in 1..Len(data) : PairKey(data[i]) = key
    THEN PairVal(data[CHOOSE i \in 1..Len(data) :
                        /\ PairKey(data[i]) = key
                        /\ \A j \in (i + 1)..Len(data) : PairKey(data[j]) # key])
    ELSE default

\* Lines 209-217: the dict run_simulation works from.
ParseData(raw) ==
    LET json_start == Find(raw, "{")
        json_end == RFind(raw, "}") + 1
    IN  IF json_start >= 0 /\ json_end > json_start
        THEN IF Decodes(Slice(raw, json_start, json_end))
             THEN DecodedMembers(Slice(raw, json_start, json_end))
             ELSE <<"eI", "oNeu">>
        ELSE <<"eJ", "oNeu">>

\* Strings float() and int() accept, with their values in tenths.
FloatStrings == {"0.9", "85"}
IntStrings == {"85"}
StrNum(s) == IF s = "0.9" THEN 9 ELSE 850

\* float(v) raises: TypeError on null or a list, ValueError on a string that
\* is no number.
FloatRaises(v) ==
    \/ v.t \in {"null", "list"}
    \/ v.t = "str" /\ v.s \notin FloatStrings

\* int(v) raises.
IntRaises(v) ==
    \/ v.t \in {"null", "list"}
    \/ v.t = "str" /\ v.s \notin IntStrings

\* float(v) in tenths, and int(v), which truncates.
FloatOf(v) == IF v.t = "str" THEN StrNum(v.s) ELSE v.n
IntOf(v) == (IF v.t = "str" THEN StrNum(v.s) ELSE v.n) \div 10

\* -------------------------------------------------------------- names
\* Names are sequences of lower-case letters.
Domain == <<"b", "u", "s", "i">>
\* The categories of a configuration main() loads, and those a program that
\* calls run_all itself passes; the second pair shares its first three letters.
MainNames == {<<"v", "i", "a", "b">>, <<"m", "a", "r", "k">>}
LibNames == {<<"v", "i", "a", "b">>, <<"v", "i", "a", "l">>}
CatNames == MainNames \cup LibNames

Upper(c) ==
    CASE c = "b" -> "B" [] c = "u" -> "U" [] c = "s" -> "S" [] c = "i" -> "I"
      [] c = "v" -> "V" [] c = "a" -> "A" [] c = "l" -> "L" [] c = "m" -> "M"
      [] c = "k" -> "K" [] c = "t" -> "T" [] c = "r" -> "R" [] OTHER -> c

\* name[:3].upper()
Upper3(name) ==
    LET n == IF Len(name) < 3 THEN Len(name) ELSE 3
    IN  [i \in 1..n |-> Upper(name[i])]

\* The decimal digits of n >= 0.
RECURSIVE Digits(_)
Digits(n) == IF n < 10 THEN <<n>> ELSE Append(Digits(n \div 10), n % 10)

\* {n:04d}: the digits, zero-padded on the left to four at least.
Pad4(n) ==
    LET d == Digits(n)
    IN  IF Len(d) >= 4 THEN d ELSE [i \in 1..(4 - Len(d)) |-> 0] \o d

\* An identifier that leaves the index out.
SimIdNoIndex(domain, category, sim_number) ==
    [dom |-> Upper3(domain), cat |-> Upper3(category), num |-> Pad4(0)]

\* Line 186: ORC-{domain[:3].upper()}-{category[:3].upper()}-{sim_number:04d}
SimId(domain, category, sim_number) ==
    [dom |-> Upper3(domain), cat |-> Upper3(category), num |-> Pad4(sim_number)]

\* Lines 225-235: the fields taken from the dict, each with its default.
Verdict(data) ==
    [outcome |-> Get(data, "outcome", JStr("neutral")),
     confidence |-> FloatOf(Get(data, "confidence", JNum(DefaultConfidence))),
     insights |-> Get(data, "insights", JList(<<>>)),
     recommendations |-> Get(data, "recommendations", JList(<<>>)),
     risks |-> Get(data, "risks", JList(<<>>)),
     dependencies |-> Get(data, "dependencies", JList(<<>>)),
     priority_score |-> IntOf(Get(data, "priority_score", JNum(10 * DefaultPriority))),
     summary |-> Get(data, "summary", JStr(""))]

\* Lines 226 and 231: float() or int() raises on the dict's value.
VerdictRaises(data) ==
    \/ FloatRaises(Get(data, "confidence", JNum(DefaultConfidence)))
    \/ IntRaises(Get(data, "priority_score", JNum(10 * DefaultPriority)))

\* Lines 219-236: the SimulationResult run_simulation builds from the reply
\* (timestamp, duration_ms and scenario are left out).
BuildResult(domain, category, hypothesis, sim_number, raw) ==
    [simulation_id |-> SimId(domain, category, sim_number),
     domain |-> domain,
     category |-> category,
     hypothesis |-> hypothesis,
     verdict |-> Verdict(ParseData(raw)),
     raw_response |-> raw]

\* run_simulation leaves by an exception instead of returning.
BuildRaises(raw) == VerdictRaises(ParseData(raw))

\* ------------------------------------------------------------- the state
VARIABLES
    maxConcurrent,  \* MAX_CONCURRENT, read from the environment (line 29)
    config,         \* engine.config["hypotheses"]: <<[name, hyps], ...>> in order
    argCategory,    \* args.category, <<>> when not given
    argCount,       \* args.count, 0 when not given
    mpc,            \* where main() is
    cats,           \* the categories argument of the running run_all
    pc,             \* where run_all / run_category is
    ci,             \* the category run_all is at (1-based)
    hi,             \* the hypothesis run_category is at (1-based, i + 1)
    sem,            \* the semaphore's value
    inflight,       \* generate calls started and not yet returned
    results,        \* OracleEngine.results
    catResults,     \* run_category's local results
    returned,       \* what the last run_all returned
    saved,          \* the per-category result files
    summary,        \* the summary / all-results files
    session,        \* GeminiClient.session: "none", "open", "closed"
    total_tokens,   \* GeminiClient.total_tokens
    spc,            \* where run_simulation is
    simArgs,        \* run_simulation's category, hypothesis, sim_number
    simres,         \* the SimulationResult run_simulation returned
    gpc,            \* where generate is
    attempt,        \* generate's loop variable
    tries,          \* loop iterations generate has begun
    last,           \* how the iteration generate sleeps or returned in ended
    wait,           \* the seconds of the asyncio.sleep generate is in, else 0
    gret,           \* what generate returned
    response,       \* the decoded body of the HTTP 200 generate returned on
    sincePause,     \* remote calls begun since the run's last pacing sleep ended
    base            \* len(self.results) when the running run_all began

vars ==
    <<maxConcurrent, config, argCategory, argCount, mpc, cats, pc, ci, hi, sem,
      inflight, results, catResults, returned, saved, summary, session,
      total_tokens, spc, simArgs, simres, gpc, attempt, tries, last, wait, gret,
      response, sincePause, base>>

callerVars == <<maxConcurrent, config, argCategory, argCount, mpc>>
runVars ==
    <<cats, pc, ci, hi, sem, results, catResults, returned, saved, summary,
      sincePause, base>>
simVars == <<spc, simArgs, simres>>
genVars == <<gpc, attempt, tries, last, wait, gret, response>>

\* ----------------------------------------------------- the remote endpoint
\* The tokens of a reply text; a text has at most MaxLen of them.
ReplyTokens == {"{", "}", ",", "n", "oP", "c9", "cS", "pN", "iL"}

\* The replies a batch run is served: JSON between prose, plain prose, and
\* JSON with a value float() or int() refuses.
BatchTexts ==
    {<<"n", "{", "oP", ",", "c9", ",", "p85", ",", "sT", "}", "n">>,
     <<"n", "n">>,
     <<"{", "cS", "}">>,
     <<"{", "pN", "}">>}

\* A part of candidates[0].content.parts, and a decoded HTTP 200 body.
TextPart(t) == [hasText |-> TRUE, text |-> t]
\* A part with no "text" key (a function call, inline data).
OtherPart == [hasText |-> FALSE, text |-> <<>>]
\* The parts of a body of several: without text, with "", with prose, with JSON.
PartChoices ==
    {OtherPart, TextPart(<<>>), TextPart(<<"n">>), TextPart(<<"{", "oP", "}">>)}
Body(parts, hasUsage, count) == [parts |-> parts, hasUsage |-> hasUsage, tokens |-> count]
UsageCounts == {2}
BatchBodies == {Body(<<TextPart(t)>>, TRUE, c) : t \in BatchTexts, c \in UsageCounts}
NoBody == Body(<<>>, FALSE, 0)

\* Lines 99-102: the text of the last part that has one, "" (here <<>>) if none.
ExtractText(parts) ==
    IF \E i \in 1..Len(parts) : parts[i].hasText
    THEN parts[CHOOSE i \in 1..Len(parts) :
                 /\ parts[i].hasText
                 /\ \A j \in (i + 1)..Len(parts) : ~parts[j].hasText].text
    ELSE <<>>

\* A count added twice.
TokensAfterTwice(total, body) ==
    IF body.hasUsage THEN total + body.tokens + body.tokens ELSE total

\* Lines 105-107.
TokensAfter(total, body) == IF body.hasUsage THEN total + body.tokens ELSE total

\* ------------------------------------------------- GeminiClient.generate
\* A loop that runs once more.
LoopContinuesOneMore(a) == a <= RETRY_ATTEMPTS

\* Line 91: the loop goes on.
LoopContinues(a) == a < RETRY_ATTEMPTS

\* A return of the text as it is.
ReturnedTextAsIs(text_response) == text_response

\* Line 109: the text, or the sentinel when it is empty.
ReturnedText(text_response) ==
    IF text_response # <<>> THEN text_response ELSE NoTextInResponse

\* Lines 96-109: what generate does with the decoded body.
Served(body) ==
    /\ total_tokens' = TokensAfter(total_tokens, body)
    /\ gret' = ReturnedText(ExtractText(body.parts))
    /\ response' = body

\* Lines 94-109: HTTP 200 with a body that decodes and has a first candidate.
\* run_simulation called on its own is served every text with or without
\* usageMetadata and the bodies of 0..MaxParts parts, a batch run the batch
\* bodies.
GenOk200 ==
    /\ gpc = "loop"
    /\ LoopContinues(attempt)
    /\ session = "open"
    /\ tries' = tries + 1
    /\ last' = "ok200"
    /\ IF pc = "standalone"
       THEN \/ \E n \in 0..MaxLen, c \in UsageCounts \cup {0} :
                 \E t \in [1..n -> ReplyTokens] :
                    Served(Body(<<TextPart(t)>>, c # 0, c))
            \/ \E n \in 0..MaxParts : \E parts \in [1..n -> PartChoices] :
                    Served(Body(parts, FALSE, 0))
       ELSE \E body \in BatchBodies : Served(body)
    /\ gpc' = "done"
    /\ inflight' = inflight - 1
    /\ UNCHANGED <<attempt, wait, session>>
    /\ UNCHANGED <<callerVars, runVars, simVars>>

\* Lines 111-114: HTTP 429.
GenRateLimited ==
    /\ gpc = "loop"
    /\ LoopContinues(attempt)
    /\ session = "open"
    /\ tries' = tries + 1
    /\ last' = "h429"
    /\ wait' = (attempt + 1) * RateLimitStep
    /\ gpc' = "sleep"
    /\ UNCHANGED <<attempt, gret, response, session, total_tokens, inflight>>
    /\ UNCHANGED <<callerVars, runVars, simVars>>

\* Lines 115-117: any other status; the next iteration follows at once.
GenApiError ==
    /\ gpc = "loop"
    /\ LoopContinues(attempt)
    /\ session = "open"
    /\ tries' = tries + 1
    /\ last' = "none"
    /\ attempt' = attempt + 1
    /\ UNCHANGED <<gpc, wait, gret, response, session, total_tokens, inflight>>
    /\ UNCHANGED <<callerVars, runVars, simVars>>

\* A handler for the transport's errors alone.
CaughtTransportOnly(kind) == kind = "exc"

\* Line 119: "except Exception" takes the transport's errors ("exc"), the
\* errors of decoding the body and of indexing an empty candidates list
\* ("bad200") and the AttributeError or RuntimeError of a session that is
\* None or closed ("nosession").
Caught(kind) == kind \in {"exc", "bad200", "nosession"}

\* Lines 119-121: an exception inside the try: the transport fails, the body
\* of a 200 does not decode or has an empty candidates list ("bad200"), or
\* self.session is None or closed.
GenException ==
    /\ gpc = "loop"
    /\ LoopContinues(attempt)
    /\ tries' = tries + 1
    /\ IF session = "open" THEN last' \in {"exc", "bad200"} ELSE last' = "nosession"
    /\ IF Caught(last')
       THEN /\ wait' = ErrorSleep
            /\ gpc' = "sleep"
            /\ UNCHANGED inflight
       ELSE /\ wait' = 0
            /\ gpc' = "raised"
            /\ inflight' = inflight - 1
    /\ UNCHANGED <<attempt, gret, response, session, total_tokens>>
    /\ UNCHANGED <<callerVars, runVars, simVars>>

\* The asyncio.sleep of line 114 or 121 ends; the loop steps.
GenWake ==
    /\ gpc = "sleep"
    /\ attempt' = attempt + 1
    /\ wait' = 0
    /\ last' = "none"
    /\ gpc' = "loop"
    /\ UNCHANGED <<tries, gret, response, session, total_tokens, inflight>>
    /\ UNCHANGED <<callerVars, runVars, simVars>>

\* Line 123: the loop is over.
GenExhausted ==
    /\ gpc = "loop"
    /\ ~LoopContinues(attempt)
    /\ gret' = FailedAfterRetries
    /\ gpc' = "done"
    /\ inflight' = inflight - 1
    /\ UNCHANGED <<attempt, tries, last, wait, response, session, total_tokens>>
    /\ UNCHANGED <<callerVars, runVars, simVars>>

\* ---------------------------------------------- OracleEngine.run_simulation
\* Lines 205-236: generate has returned; parse the reply and build the
\* result, or leave by the exception float() / int() raises.
SimFinish ==
    /\ spc = "generate"
    /\ gpc = "done"
    /\ gpc' = "idle"
    /\ attempt' = 0
    /\ tries' = 0
    /\ last' = "none"
    /\ response' = NoBody
    /\ IF BuildRaises(gret)
       THEN /\ spc' = "raised"
            /\ UNCHANGED simres
       ELSE /\ spc' = "returned"
            /\ simres' = BuildResult(Domain, simArgs.category, simArgs.hypothesis,
                                     simArgs.sim_number, gret)
    /\ UNCHANGED <<simArgs, wait, gret, session, total_tokens, inflight>>
    /\ UNCHANGED <<callerVars, runVars>>

\* ------------------------------------------------------------ the inputs
\* Hypothesis lists of 0..MaxHyp distinct texts.
HypText(i) == <<"h", i>>
HypLists == {[i \in 1..n |-> HypText(i)] : n \in 0..MaxHyp}
Category(name, hyps) == [name |-> name, hyps |-> hyps]

RECURSIVE TotalHyps(_)
TotalHyps(m) == IF m = <<>> THEN 0 ELSE Len(m[1].hyps) + TotalHyps(Tail(m))

\* The category -> hypotheses mappings (a dict: distinct keys, in order) of
\* at most budget hypotheses.
Mappings(names, budget) ==
    {m \in UNION {[1..n -> [name : names, hyps : HypLists]] :
                    n \in 0..Cardinality(names)} :
        /\ \A i, j \in 1..Len(m) : i # j => m[i].name # m[j].name
        /\ TotalHyps(m) <= budget}

NoFile == [written |-> FALSE, rows |-> <<>>]
File(rows) == [written |-> TRUE, rows |-> rows]
NoReturn == [has |-> FALSE, value |-> <<>>]
NoArgs == [category |-> <<>>, hypothesis |-> <<>>, sim_number |-> 0]
NoResult == BuildResult(<<>>, <<>>, <<>>, 0, <<>>)

\* ------------------------------------------------------------ run_all
\* A semaphore whose acquire never waits.
CanAcquireAlways(s) == TRUE

\* asyncio.Semaphore: acquire goes through when the value is positive.
CanAcquire(s) == s > 0
SemAcquire(s) == s - 1
\* A block left without giving the unit back.
SemReleaseNone(s) == s

\* Semaphore.release, as __aexit__ of "async with semaphore" calls it when
\* the block ends normally (line 260) ...
SemRelease(s) == s + 1
\* A release that an exception skips (acquire / release without finally).
NoReleaseOnRaise(s) == s

\* ... and when an exception leaves the block (line 251).
ReleaseOnRaise(s) == s + 1

\* Lines 267-269: a semaphore and a client, its session opened, per run.
StartRunAll(categories) ==
    /\ cats' = categories
    /\ sem' = maxConcurrent
    /\ session' = "open"
    /\ total_tokens' = 0
    /\ ci' = 1
    /\ hi' = 1
    /\ catResults' = <<>>
    /\ returned' = NoReturn
    /\ sincePause' = 0
    /\ base' = Len(results)
    /\ pc' = "loop"
    /\ UNCHANGED <<results, saved, summary, inflight>>
    /\ UNCHANGED <<simVars, genVars>>

\* Lines 249-251 and 186-205: take a unit of the semaphore, enter
\* run_simulation and start generate.
Acquire ==
    /\ pc = "loop"
    /\ ci <= Len(cats)
    /\ hi <= Len(cats[ci].hyps)
    /\ CanAcquire(sem)
    /\ sem' = SemAcquire(sem)
    /\ simArgs' = [category |-> cats[ci].name,
                   hypothesis |-> cats[ci].hyps[hi],
                   sim_number |-> hi]
    /\ spc' = "generate"
    /\ gpc' = "loop"
    /\ attempt' = 0
    /\ tries' = 0
    /\ last' = "none"
    /\ wait' = 0
    /\ inflight' = inflight + 1
    /\ sincePause' = sincePause + 1
    /\ pc' = "simulate"
    /\ UNCHANGED <<cats, ci, hi, results, catResults, returned, saved, summary, base>>
    /\ UNCHANGED <<simres, gret, response, session, total_tokens, callerVars>>

\* The appends followed at once by the next turn of the loop.
AfterAppendNoPause == "loop"

\* Line 260: after the appends and the progress line, asyncio.sleep.
AfterAppend == "pacing"

\* Lines 252-260: both appends and the progress line, then the pacing sleep
\* starts (the semaphore is still held).
Record ==
    /\ pc = "simulate"
    /\ spc = "returned"
    /\ results' = Append(results, simres)
    /\ catResults' = Append(catResults, simres)
    /\ spc' = "idle"
    /\ simArgs' = NoArgs
    /\ simres' = NoResult
    /\ gret' = <<>>
    /\ pc' = AfterAppend
    /\ UNCHANGED <<cats, ci, hi, sem, returned, saved, summary, inflight>>
    /\ UNCHANGED <<sincePause, base, response>>
    /\ UNCHANGED <<gpc, attempt, tries, last, wait, session, total_tokens, callerVars>>

\* Line 260 ends: the with block is left, the unit released, the loop steps.
PaceDone ==
    /\ pc = "pacing"
    /\ sem' = SemRelease(sem)
    /\ hi' = hi + 1
    /\ sincePause' = 0
    /\ pc' = "loop"
    /\ UNCHANGED <<cats, ci, results, catResults, returned, saved, summary, inflight, base>>
    /\ UNCHANGED <<simVars, genVars, session, total_tokens, callerVars>>

\* run_simulation raised: the exception leaves the with block of line 250
\* (releasing), run_category, the client's with block of line 269 (closing
\* the session) and run_all.
Unwind ==
    /\ pc = "simulate"
    /\ spc = "raised"
    /\ sem' = ReleaseOnRaise(sem)
    /\ session' = "closed"
    /\ spc' = "idle"
    /\ simArgs' = NoArgs
    /\ gret' = <<>>
    /\ pc' = "raised"
    /\ UNCHANGED <<cats, ci, hi, results, catResults, returned, saved, summary, inflight>>
    /\ UNCHANGED <<sincePause, base, response>>
    /\ UNCHANGED <<simres, gpc, attempt, tries, last, wait, total_tokens, callerVars>>

\* Line 289: the results of one category.
CategorySlice(all, category) ==
    SelectSeq(all, LAMBDA r : r.category = category)

\* Lines 262-263 and 278: run_category returns, run_all saves the category.
CategoryDone ==
    /\ pc = "loop"
    /\ ci <= Len(cats)
    /\ hi > Len(cats[ci].hyps)
    /\ saved' = [saved EXCEPT ![cats[ci].name] =
                    File(CategorySlice(results, cats[ci].name))]
    /\ ci' = ci + 1
    /\ hi' = 1
    /\ catResults' = <<>>
    /\ UNCHANGED <<cats, pc, sem, results, returned, summary, inflight, sincePause, base>>
    /\ UNCHANGED <<simVars, genVars, session, total_tokens, callerVars>>

\* Lines 280-285: the client is closed, the summary written, self.results
\* returned.
RunAllReturn ==
    /\ pc = "loop"
    /\ ci > Len(cats)
    /\ session' = "closed"
    /\ summary' = File(results)
    /\ returned' = [has |-> TRUE, value |-> results]
    /\ pc' = "returned"
    /\ UNCHANGED <<cats, ci, hi, sem, results, catResults, saved, inflight, sincePause, base>>
    /\ UNCHANGED <<simVars, genVars, total_tokens, callerVars>>

\* ------------------------------------------------------------------ main
\* dict.get(category, [])
Lookup(mapping, name) ==
    IF \E i \in 1..Len(mapping) : mapping[i].name = name
    THEN mapping[CHOOSE i \in 1..Len(mapping) : mapping[i].name = name].hyps
    ELSE <<>>

\* v[:count] for count > 0
Take(v, count) == SubSeq(v, 1, IF count < Len(v) THEN count ELSE Len(v))

\* Lines 416-420: the mapping main hands to run_all.
Selected(mapping, category, count) ==
    LET byCategory == IF category # <<>>
                      THEN <<Category(category, Lookup(mapping, category))>>
                      ELSE mapping
    IN  IF count # 0
        THEN [i \in 1..Len(byCategory) |->
                Category(byCategory[i].name, Take(byCategory[i].hyps, count))]
        ELSE byCategory

\* Lines 409-414: no hypotheses at all, exit(1).
MainExit ==
    /\ mpc = "start"
    /\ Len(config) = 0
    /\ mpc' = "exit1"
    /\ UNCHANGED <<maxConcurrent, config, argCategory, argCount>>
    /\ UNCHANGED <<runVars, simVars, genVars, session, total_tokens, inflight>>

\* Lines 416-431: select the hypotheses and run.
MainRun ==
    /\ mpc = "start"
    /\ Len(config) # 0
    /\ mpc' = "running"
    /\ StartRunAll(Selected(config, argCategory, argCount))
    /\ UNCHANGED <<maxConcurrent, config, argCategory, argCount>>

\* Lines 433-435: run_all returned; "SIMULATION COMPLETE".
MainComplete ==
    /\ mpc = "running"
    /\ pc = "returned"
    /\ mpc' = "complete"
    /\ UNCHANGED <<maxConcurrent, config, argCategory, argCount>>
    /\ UNCHANGED <<runVars, simVars, genVars, session, total_tokens, inflight>>

\* Line 431: run_all raised; asyncio.run raises and main ends by it.
MainCrash ==
    /\ mpc = "running"
    /\ pc = "raised"
    /\ mpc' = "crashed"
    /\ UNCHANGED <<maxConcurrent, config, argCategory, argCount>>
    /\ UNCHANGED <<runVars, simVars, genVars, session, total_tokens, inflight>>

\* A program other than main() that holds an engine calls run_all, a first
\* time or again; self.results is kept to MaxRecords records.
CallRunAll ==
    /\ mpc = "lib"
    /\ pc \in {"idle", "returned", "raised"}
    /\ \E c \in Mappings(LibNames, MaxRecords - Len(results)) : StartRunAll(c)
    /\ UNCHANGED callerVars

\* ---------------------------------------------------------- specifications
InitEngine ==
    /\ cats = <<>>
    /\ ci = 1
    /\ hi = 1
    /\ sem = 0
    /\ results = <<>>
    /\ catResults = <<>>
    /\ returned = NoReturn
    /\ saved = [c \in CatNames |-> NoFile]
    /\ summary = NoFile
    /\ total_tokens = 0
    /\ simres = NoResult
    /\ attempt = 0
    /\ tries = 0
    /\ last = "none"
    /\ wait = 0
    /\ gret = <<>>
    /\ response = NoBody
    /\ sincePause = 0
    /\ base = 0

\* main() about to run, or another program holding a fresh engine.
Init ==
    /\ InitEngine
    /\ maxConcurrent \in 0..MaxCap
    /\ \/ /\ mpc = "start"
          /\ config \in Mappings(MainNames, MaxRecords)
          /\ argCategory \in CatNames \cup {<<>>}
          /\ argCount \in 0..MaxHyp
       \/ /\ mpc = "lib"
          /\ config = <<>>
          /\ argCategory = <<>>
          /\ argCount = 0
    /\ pc = "idle"
    /\ session = "none"
    /\ inflight = 0
    /\ simArgs = NoArgs
    /\ spc = "idle"
    /\ gpc = "idle"

Generate ==
    \/ GenOk200
    \/ GenRateLimited
    \/ GenApiError
    \/ GenException
    \/ GenWake
    \/ GenExhausted

Next ==
    \/ MainExit
    \/ MainRun
    \/ MainComplete
    \/ MainCrash
    \/ CallRunAll
    \/ Acquire
    \/ Generate
    \/ SimFinish
    \/ Record
    \/ PaceDone
    \/ Unwind
    \/ CategoryDone
    \/ RunAllReturn

Spec == Init /\ [][Next]_vars

\* run_simulation called on its own, on a client whose session is open or was
\* never opened, with generate just entered.
InitSim ==
    /\ InitEngine
    /\ maxConcurrent = MaxCap
    /\ mpc = "lib"
    /\ config = <<>>
    /\ argCategory = <<>>
    /\ argCount = 0
    /\ pc = "standalone"
    /\ session \in {"none", "open"}
    /\ inflight = 1
    /\ simArgs \in [category : LibNames, hypothesis : {HypText(1)}, sim_number : {1}]
    /\ spc = "generate"
    /\ gpc = "loop"

NextSim ==
    \/ Generate
    \/ SimFinish

SpecSim == InitSim /\ [][NextSim]_vars

\* ------------------------------------------------------------ properties
Running == pc \in {"loop", "simulate", "pacing"}

\* Units of the semaphore taken and not given back.
Held == maxConcurrent - sem

\* C1: during a run_all over more hypotheses than the cap, the generate calls
\* in flight never outnumber the cap.
C1_ConcurrencyCap ==
    (Running /\ TotalHyps(cats) > maxConcurrent) => inflight <= maxConcurrent

C1_Witness ==
    /\ pc = "simulate"
    /\ gpc = "sleep"
    /\ TotalHyps(cats) > maxConcurrent
    /\ inflight = maxConcurrent
    /\ hi = 2

\* C2: a unit taken in run_category is given back exactly once, whether
\* run_simulation returns or raises: one unit is held inside the with block,
\* none outside it, never a negative number, and none once run_all has ended
\* by returning or by an exception.
C2_ReleasedOnce ==
    /\ (Running \/ pc \in {"returned", "raised"}) => Held >= 0
    /\ pc \in {"simulate", "pacing"} => Held = 1
    /\ pc \in {"loop", "returned", "raised"} => Held = 0

C2_Witness ==
    /\ pc = "raised"
    /\ Len(results) = 1
    /\ maxConcurrent >= 1
    /\ Held = 0

\* C3: generate never raises: whatever the attempts end in, it returns a
\* text that is not empty, and when no attempt returned early that text is
\* the sentinel {"error": "Failed after retries"}.
C3_NeverRaises ==
    /\ gpc # "raised"
    /\ gpc = "done" => gret # <<>>
    /\ (gpc = "done" /\ last # "ok200") => gret = FailedAfterRetries

C3_Witness ==
    /\ pc = "standalone"
    /\ session = "none"
    /\ gpc = "done"
    /\ gret = FailedAfterRetries

\* How far generate is from returning.
GenRank ==
    CASE gpc = "loop" -> 2 * (RETRY_ATTEMPTS - attempt) + 2
      [] gpc = "sleep" -> 2 * (RETRY_ATTEMPTS - attempt) + 1
      [] OTHER -> 0

C4_Attempts ==
    /\ tries <= 3
    /\ last = "ok200" => gpc = "done"
    /\ gpc = "done" => tries = (IF last = "ok200" THEN attempt + 1 ELSE 3)
    /\ (gpc = "done" /\ last # "ok200") => gret = FailedAfterRetries
    /\ gpc \in {"loop", "sleep"} => (GenRank > 0 /\ ENABLED Generate)

\* C4: one generate call makes at most 3 attempts and stops at the first
\* HTTP 200 whose body parses, so the attempts number min(3, the position of
\* that response); without one it returns the sentinel after exactly 3; and
\* it terminates: while it runs a step is possible and every step brings it
\* nearer to returning.
C4_BoundedRetry ==
    /\ []C4_Attempts
    /\ [][(gpc \in {"loop", "sleep"}) => (GenRank' < GenRank)]_vars

C4_Witness ==
    /\ pc = "standalone"
    /\ gpc = "done"
    /\ last = "ok200"
    /\ tries = 3
    /\ gret = <<"{", "oP", "}">>

\* C5: what run_all returns is as long as the hypotheses it was given are
\* many, also when it is called again on the same engine.
C5_ReturnedLength ==
    returned.has => Len(returned.value) = TotalHyps(cats)

\* The hypotheses of a mapping in submission order.
RECURSIVE Submitted(_)
Submitted(m) ==
    IF m = <<>> THEN <<>>
    ELSE [j \in 1..Len(m[1].hyps) |->
            [category |-> m[1].name, hypothesis |-> m[1].hyps[j], index |-> j]]
         \o Submitted(Tail(m))

\* C6: what run_all returns is in submission order: category by category as
\* given, the j-th result of a category carrying the j-th hypothesis and
\* index j.
C6_SubmissionOrder ==
    returned.has =>
        LET e == Submitted(cats)
        IN  /\ Len(returned.value) = Len(e)
            /\ \A k \in 1..Len(e) :
                 /\ returned.value[k].category = e[k].category
                 /\ returned.value[k].hypothesis = e[k].hypothesis
                 /\ returned.value[k].simulation_id.num = Pad4(e[k].index)

\* C7: no reply aborts the batch: run_simulation returns a result for every
\* reply text, run_all does not end by an exception, main() does not crash.
C7_NeverAborts ==
    /\ spc # "raised"
    /\ pc # "raised"
    /\ mpc # "crashed"

\* The text between the first "{" and the last "}" of raw, when the one
\* comes before the other.
HasBracePair(raw) ==
    \E i, j \in 1..Len(raw) : i < j /\ raw[i] = "{" /\ raw[j] = "}"
Braced(raw) ==
    LET i == CHOOSE a \in 1..Len(raw) :
                raw[a] = "{" /\ \A b \in 1..(a - 1) : raw[b] # "{"
        j == CHOOSE a \in 1..Len(raw) :
                raw[a] = "}" /\ \A b \in (a + 1)..Len(raw) : raw[b] # "}"
    IN  SubSeq(raw, i, j)

\* The reply cannot be parsed, or is one of generate's sentinels.
Degraded(raw) ==
    \/ ~HasBracePair(raw)
    \/ ~Decodes(Braced(raw))
    \/ raw \in {FailedAfterRetries, NoTextInResponse}

DefaultVerdict ==
    [outcome |-> JStr("neutral"),
     confidence |-> 5,
     insights |-> JList(<<>>),
     recommendations |-> JList(<<>>),
     risks |-> JList(<<>>),
     dependencies |-> JList(<<>>),
     priority_score |-> 50,
     summary |-> JStr("")]

\* C8: a reply with no "{" before a "}", or whose text between the first
\* "{" and the last "}" is not JSON, or that is a sentinel of the client,
\* gives a result with every field at its default (neutral, 0.5, 50, empty
\* lists, empty summary) and the reply kept in raw_response.
C8_DefaultedResult ==
    (spc \in {"returned", "raised"} /\ Degraded(gret)) =>
        /\ spc = "returned"
        /\ simres.verdict = DefaultVerdict
        /\ simres.raw_response = gret

C8_Witness ==
    /\ pc = "standalone"
    /\ spc = "returned"
    /\ gret = <<"{", "oP", "n", "}">>
    /\ simres.raw_response = gret

\* The reply is lead \o J \o trail with J = raw[i..j] a JSON object.
Embedded(raw, i, j) == i < j /\ Decodes(SubSeq(raw, i, j))
Lead(raw, i) == SubSeq(raw, 1, i - 1)
Trail(raw, j) == SubSeq(raw, j + 1, Len(raw))
Contains(s, c) == \E k \in 1..Len(s) : s[k] = c

\* run_simulation did with the reply what it does with J alone.
SameAsDirect(J) ==
    IF VerdictRaises(DecodedMembers(J))
    THEN spc = "raised"
    ELSE spc = "returned" /\ simres.verdict = Verdict(DecodedMembers(J))

\* C9, as claimed: for every JSON object J and all noise around it, braces or
\* not, parsing the whole gives the fields decoding J gives.
C9_RoundTripAnyNoise ==
    spc \in {"returned", "raised"} =>
        \A i, j \in 1..Len(gret) :
            Embedded(gret, i, j) => SameAsDirect(SubSeq(gret, i, j))

\* C9, amended: the same, for leading noise without "{" and trailing noise
\* without "}".
C9_RoundTrip ==
    spc \in {"returned", "raised"} =>
        \A i, j \in 1..Len(gret) :
            (/\ Embedded(gret, i, j)
             /\ ~Contains(Lead(gret, i), "{")
             /\ ~Contains(Trail(gret, j), "}")) => SameAsDirect(SubSeq(gret, i, j))

C9_Witness ==
    /\ pc = "standalone"
    /\ spc = "returned"
    /\ gret = <<"}", "{", "oP", "}">>
    /\ simres.verdict.outcome = JStr("positive")

\* main() was asked for a category that has no hypotheses.
RequestedEmpty == argCategory # <<>> /\ Lookup(config, argCategory) = <<>>

\* C10: asked for a category without hypotheses, main() ends before
\* run_all starts: nothing is scheduled, no file is written and the run is
\* not reported complete.
C10_SurfacedBeforeScheduling ==
    (mpc \notin {"start", "lib"} /\ RequestedEmpty) =>
        /\ pc = "idle"
        /\ mpc # "complete"
        /\ summary = NoFile
        /\ \A c \in CatNames : saved[c] = NoFile

\* generate has just returned from the HTTP 200 branch.
Returned200 == gpc = "done" /\ last = "ok200"

TextParts(parts) == {i \in 1..Len(parts) : parts[i].hasText}

\* The text of the first part that has a text field.
FirstText(parts) ==
    parts[CHOOSE i \in TextParts(parts) : \A j \in TextParts(parts) : i <= j].text

\* C11: on an HTTP 200 whose body holds several parts with a text field,
\* generate returns the text of the first of them.
C11_FirstPartReturned ==
    (/\ Returned200
     /\ Cardinality(TextParts(response.parts)) > 1
     /\ FirstText(response.parts) # <<>>)
        => gret = FirstText(response.parts)

\* No part of the body carries a text that is not empty.
NoTextAtAll(parts) == \A i \in TextParts(parts) : parts[i].text = <<>>

C12_SentinelAtOnce ==
    (Returned200 /\ NoTextAtAll(response.parts)) =>
        /\ gret = <<"{", "eN", "}">>
        /\ gret # FailedAfterRetries
        /\ tries = attempt + 1

\* C12: an HTTP 200 with no parts, no part with a text field or only empty
\* text makes generate return {"error": "No text in response"} at that
\* attempt: no attempt follows, and the retries-exhausted sentinel is not
\* what it returns.
C12_EmptyTextSentinel ==
    /\ []C12_SentinelAtOnce
    /\ [][Returned200 => (gpc' \notin {"loop", "sleep"} /\ tries' <= tries)]_vars

C12_Witness ==
    /\ Returned200
    /\ Len(response.parts) = 2
    /\ TextParts(response.parts) # {}
    /\ NoTextAtAll(response.parts)
    /\ attempt = 1

\* The delays of the schedule: (a + 1) * 5 seconds after a 429 at attempt
\* index a, 2 seconds after an exception, none otherwise.
C13_Delays ==
    /\ (gpc = "sleep" /\ last = "h429") => wait = (attempt + 1) * 5
    /\ (gpc = "sleep" /\ last \in {"exc", "bad200", "nosession"}) => wait = 2
    /\ gpc = "sleep" => last \in {"h429", "exc", "bad200", "nosession"}
    /\ gpc # "sleep" => wait = 0

\* C13: generate sleeps (a + 1) * 5 seconds after a 429 at attempt index a,
\* 2 seconds after an exception and not at all after another status, and
\* every sleep is followed by a further attempt: none is spent after the
\* last permitted attempt.
C13_BackoffSchedule ==
    /\ C13_Delays
    /\ gpc = "sleep" => tries < 3

\* C14: the unit of the semaphore is released before the pacing delay
\* starts: none is held while run_category is in a pacing pause.
C14_ReleasedBeforePause == pc = "pacing" => Held = 0

\* C15: for every cap, a result recorded is followed by the pacing delay,
\* and no two remote calls of a run begin without a whole pacing delay
\* between them.
C15_PacedCalls ==
    /\ [](sincePause <= 1)
    /\ [][results' # results => (pc' = "pacing" /\ sincePause' = sincePause)]_vars
    /\ [][(pc = "pacing" /\ pc' # "pacing") => sincePause' = 0]_vars

C15_Witness ==
    /\ pc = "simulate"
    /\ sincePause = 1
    /\ Len(results) > base
    /\ maxConcurrent > 1

\* usageMetadata.totalTokenCount of a body, 0 when it reports none.
Reported(body) == IF body.hasUsage THEN body.tokens ELSE 0

\* The step in which generate returns from the HTTP 200 branch.
Returns200 == gpc = "loop" /\ gpc' = "done" /\ last' = "ok200"

\* C16: total_tokens never decreases and changes only in the step that
\* returns from an HTTP 200, where it grows by that response's
\* totalTokenCount; 429, other statuses and exceptions leave it alone, and
\* generate changes nothing else of the client (its session).
C16_TokenCounter ==
    [][/\ total_tokens' >= total_tokens
       /\ total_tokens' # total_tokens => Returns200
       /\ Returns200 => total_tokens' = total_tokens + Reported(response')
       /\ last' \in {"h429", "exc", "bad200", "nosession"} => total_tokens' = total_tokens
       /\ session' = session]_vars

C16_Witness ==
    /\ Returned200
    /\ attempt = 2
    /\ response.hasUsage
    /\ total_tokens = response.tokens
    /\ total_tokens > 0

\* The records of the running (or last) run_all, and those of one category.
ThisRun == SubSeq(results, base + 1, Len(results))
ThisRunOf(c) == SelectSeq(ThisRun, LAMBDA r : r.category = c)
RowHyps(rows) == [i \in 1..Len(rows) |-> rows[i].hypothesis]

\* The categories run_category has returned for.
DoneCats == {k \in 1..Len(cats) : k < ci}

\* C17: a category's slice is saved once all its hypotheses are recorded and
\* before the next category's first call, also when the run aborts later;
\* the slice holds exactly this run's results of the category, in
\* submission order; no slice is saved before its category is done.
C17_SlicePersisted ==
    (Running \/ pc \in {"returned", "raised"}) =>
        /\ \A k \in DoneCats :
              /\ saved[cats[k].name].written
              /\ saved[cats[k].name].rows = ThisRunOf(cats[k].name)
              /\ RowHyps(saved[cats[k].name].rows) = cats[k].hyps
        /\ mpc # "lib" =>
              \A c \in CatNames :
                 saved[c].written => \E k \in DoneCats : cats[k].name = c

\* The hypotheses run_category has taken from its list in this run: those of
\* the categories done, those before hi, and the one at hi once acquired.
TakenUp ==
    TotalHyps(SubSeq(cats, 1, ci - 1)) + (hi - 1)
    + (IF pc \in {"simulate", "pacing", "raised"} THEN 1 ELSE 0)

\* One record of this run for each hypothesis taken up, in order.
C18_OneRecordEach ==
    pc \in {"loop", "pacing", "returned", "raised"} =>
        /\ Len(ThisRun) = TakenUp
        /\ \A i \in 1..Len(ThisRun) :
              ThisRun[i].hypothesis = Submitted(cats)[i].hypothesis

\* C18: self.results is append-only: every step leaves it as it is or adds
\* one record at its end, and every hypothesis run_category processes
\* contributes exactly one record.
C18_AppendOnly ==
    /\ [][\/ results' = results
          \/ /\ Len(results') = Len(results) + 1
             /\ SubSeq(results', 1, Len(results)) = results]_vars
    /\ []C18_OneRecordEach

\* C19: with a cap of 1 or more run_all works through the hypotheses one
\* after another: one generate call and one unit at most at any time, an
\* acquire that never finds the semaphore empty, and a call that starts only
\* when every hypothesis before it is recorded and its pacing delay is over.
C19_StrictlySequential ==
    (maxConcurrent >= 1 /\ Running) =>
        /\ inflight <= 1
        /\ Held <= 1
        /\ pc = "loop" => (Held = 0 /\ sem >= 1)
        /\ pc = "simulate" => (Len(ThisRun) = TakenUp - 1 /\ sincePause = 1)

C19_Witness ==
    /\ maxConcurrent = 1
    /\ pc = "simulate"
    /\ gpc = "loop"
    /\ Len(ThisRun) = 1

\* The 1-based index of the i-th record within its category.
IndexInCategory(i) ==
    Len(SelectSeq(SubSeq(results, 1, i), LAMBDA r : r.category = results[i].category))

\* Every record's identifier is ORC-BUS-{category[:3] uppercased}-{index,
\* four digits}, and no two records share one.
IdsWellFormedAndDistinct ==
    /\ \A i \in 1..Len(results) :
          /\ results[i].simulation_id.dom = <<"B", "U", "S">>
          /\ results[i].simulation_id.cat = Upper3(results[i].category)
          /\ results[i].simulation_id.num = Pad4(IndexInCategory(i))
          /\ Len(results[i].simulation_id.num) = 4
    /\ \A i, j \in 1..Len(results) :
          i # j => results[i].simulation_id # results[j].simulation_id

\* C20: in one run_all on a fresh engine the records carry well-formed,
\* pairwise distinct simulation_ids, whatever the category names, names
\* that share their first three characters included.
C20_DistinctIds == base = 0 => IdsWellFormedAndDistinct

\* No two categories of the run share their uppercased first three characters.
DistinctPrefixes ==
    \A k, l \in 1..Len(cats) : k # l => Upper3(cats[k].name) # Upper3(cats[l].name)

\* C20: in one run_all on a fresh engine the records carry well-formed,
\* pairwise distinct simulation_ids, provided the uppercased three-character
\* prefixes of the category names supplied are pairwise distinct.
C20_DistinctIdsByPrefix ==
    (base = 0 /\ DistinctPrefixes) => IdsWellFormedAndDistinct

C20_Witness ==
    /\ base = 0
    /\ DistinctPrefixes
    /\ Len(cats) = 2
    /\ Len(results) = 2
    /\ results[1].category # results[2].category
    /\ pc = "returned"

====
